---- MODULE Spec2Model ----
(***************************************************************************)
(* Model of the wc_websocket transport (crates/websocket): the driver task *)
(* spawned by transport::spawn, transport::Core and the WebSocket facade.  *)
(*                                                                         *)
(* Every variable is a function over the endpoints.  Specification Spec    *)
(* runs endpoint 1 against an arbitrary peer (the environment supplies the *)
(* native frames and reads the native sink), RecvSpec and FairSpec are the *)
(* same system with other depths, FairSpec with fair scheduling;           *)
(* specification PairSpec connects endpoints 1 and 2 to each other.        *)
(*                                                                         *)
(* Time is kept by count-down timers: `delay` is what is left of Core's    *)
(* futures_timer::Delay, `interval` what is left until the next tick of    *)
(* the heartbeat tokio::time::Interval.  Tick lets one unit of time pass.  *)
(***************************************************************************)
EXTENDS Naturals, Sequences, FiniteSets

\* ------------------------------------------------------------------ bounds
Capacity == 1            \* Config::channel_capacity, scaled down
HeartbeatInterval == 1   \* Config::heartbeat_interval, in time units
IdleTimeout == 2         \* Config::idle_timeout, in time units
LinkCapacity == 1        \* frames the native sink buffers before it blocks
MaxSend == 2             \* Spec: payloads the application sends
MaxArrive == 2           \* Spec: native messages the peer delivers
MaxPing == 2             \* Spec: heartbeat Pings generated
RecvSend == 1            \* RecvSpec: payloads the application sends
RecvArrive == 2          \* RecvSpec: native messages the peer delivers
RecvPing == 1            \* RecvSpec: heartbeat Pings generated

FairSend == 1            \* FairSpec: payloads the application sends
FairArrive == 2          \* FairSpec: native messages the peer delivers
PairSend == 1            \* PairSpec: payloads the application of endpoint 2 sends
BeatSend == 2            \* BeatSpec: payloads the application sends
MaxBytes == 2            \* CodecSpec: longest Bytes payload
MaxChars == 3            \* CodecSpec: longest String payload
MaxLog == 3              \* length at which the history variables stop growing

Endpoints == {1, 2}
Peer(e) == 3 - e

\* ------------------------------------------------------------------ frames
\* lib.rs Message: Text | Binary | Ping | Pong | Close.  `data` identifies
\* the payload (a sequence number), so that loss, duplication and reordering
\* are visible.
UserKinds == {"Text", "Binary"}
HeartbeatKinds == {"Ping", "Pong"}
MessageKinds == UserKinds \cup HeartbeatKinds \cup {"Close"}

\* What the native stream can produce: the native message kinds of the
\* tungstenite backend (Frame is a raw frame) and a transport error.
NativeKinds == MessageKinds \cup {"Frame"}
NativeItems == NativeKinds \cup {"Error"}

NoFrame == [kind |-> "None", data |-> 0]
Frame(k, d) == [kind |-> k, data |-> d]

\* Backend::decode_message: one-to-one on the five kinds, a raw frame becomes
\* Close(None).
decode_message(m) ==
    IF m.kind = "Frame" THEN Frame("Close", 0) ELSE m

\* Backend::encode_message: one-to-one on the five kinds.
encode_message(m) == m

IsUser(m) == m.kind \in UserKinds
IsPing(m) == m.kind = "Ping"
IsHeartbeat(m) == m.kind \in HeartbeatKinds

\* ------------------------------------------------------------------ codecs
\* The payload codec of the facade; the integration tests use Plaintext.
Codec(e) == "Plaintext"

\* DataCodec::MessageCodec of each built-in codec.
MessageCodecKind(c) == IF c = "Binary" THEN "Binary" ELSE "Text"

\* codec.encode(item).and_then(MessageCodec::encode): a payload becomes one
\* frame of the codec's kind.
FacadeEncode(c, p) == Frame(MessageCodecKind(c), p)

\* MessageCodec::decode(msg).and_then(codec.decode).ok(): the payload, or
\* NoFrame when the frame is not of the codec's kind.
FacadeDecode(c, m) ==
    IF m.kind = MessageCodecKind(c) THEN m ELSE NoFrame

\* ---------------------------------------------------------- payload codecs
\* A payload is [ty, val, nan]: ty names its Rust type, val is its content
\* (the bytes of a Bytes, the code points of a String, <<n>> for a number or
\* for the struct Foo { a: n }), nan marks a floating-point NaN.  The result
\* of a codec call is [ok, val]: the bytes or content produced, or a failure.
Payload(t, v) == [ty |-> t, val |-> v, nan |-> FALSE]
NaN == [ty |-> "f64", val |-> <<>>, nan |-> TRUE]
Ok(v) == [ok |-> TRUE, val |-> v]
Err == [ok |-> FALSE, val |-> <<>>]

Utf8Ascii(c) == <<c % 128>>

\* The UTF-8 encoding of a code point below 0x800.
Utf8(c) == IF c < 128 THEN <<c>> ELSE <<192 + (c \div 64), 128 + (c % 64)>>

RECURSIVE IntoBytes(_)
\* String -> Bytes: the UTF-8 bytes of the string.
IntoBytes(str) ==
    IF str = <<>> THEN <<>> ELSE Utf8(Head(str)) \o IntoBytes(Tail(str))

RECURSIVE FromUtf8(_)
\* String::from_utf8: the code points, or a failure on a byte sequence that
\* is not UTF-8.
FromUtf8(b) ==
    IF b = <<>> THEN Ok(<<>>)
    ELSE IF b[1] < 128
         THEN LET r == FromUtf8(Tail(b))
              IN IF r.ok THEN Ok(<<b[1]>> \o r.val) ELSE Err
    ELSE IF b[1] >= 194 /\ b[1] < 224 /\ Len(b) >= 2 /\ b[2] >= 128 /\ b[2] < 192
         THEN LET r == FromUtf8(Tail(Tail(b)))
              IN IF r.ok THEN Ok(<<(b[1] - 192) * 64 + (b[2] - 128)>> \o r.val) ELSE Err
    ELSE Err

\* The decimal digits (ASCII) of a number below 100, and their value.
Digits(n) == IF n < 10 THEN <<48 + n>> ELSE <<48 + (n \div 10), 48 + (n % 10)>>
IsDigit(b) == b >= 48 /\ b <= 57
ParseDigits(b) ==
    CASE Len(b) = 1 /\ IsDigit(b[1]) -> Ok(<<b[1] - 48>>)
      [] Len(b) = 2 /\ IsDigit(b[1]) /\ b[1] # 48 /\ IsDigit(b[2])
           -> Ok(<<(b[1] - 48) * 10 + (b[2] - 48)>>)
      [] OTHER -> Err

JsonNull == <<110, 117, 108, 108>>          \* null
JsonFooOpen == <<123, 34, 97, 34, 58>>      \* {"a":
JsonFooClose == <<125>>                     \* }

\* serde_json::to_vec: an integer as its digits, a finite float likewise, a
\* non-finite float as null, the struct as an object; a map whose keys are
\* not strings is an error.
JsonToVec(p) ==
    CASE p.ty = "u64" -> Ok(Digits(p.val[1]))
      [] p.ty = "f64" -> IF p.nan THEN Ok(JsonNull) ELSE Ok(Digits(p.val[1]))
      [] p.ty = "Foo" -> Ok(JsonFooOpen \o Digits(p.val[1]) \o JsonFooClose)
      [] OTHER -> Err

\* serde_json::from_slice::<T>: a number for u64 and f64, an object with the
\* field a for Foo; anything else is an error.
JsonFromSlice(t, b) ==
    CASE t \in {"u64", "f64"} -> ParseDigits(b)
      [] t = "Foo" ->
           IF /\ Len(b) > Len(JsonFooOpen) + Len(JsonFooClose)
              /\ SubSeq(b, 1, Len(JsonFooOpen)) = JsonFooOpen
              /\ SubSeq(b, Len(b), Len(b)) = JsonFooClose
           THEN ParseDigits(SubSeq(b, Len(JsonFooOpen) + 1, Len(b) - 1))
           ELSE Err
      [] OTHER -> Err

\* DataCodec::encode of the built-in codecs.
DataEncode(c, p) ==
    CASE c = "Binary" -> Ok(p.val)
      [] c = "Plaintext" -> Ok(IntoBytes(p.val))
      [] c = "Json" -> JsonToVec(p)

\* DataCodec::decode of the built-in codecs, for the payload type t.
DataDecode(c, t, b) ==
    CASE c = "Binary" -> Ok(b)
      [] c = "Plaintext" -> FromUtf8(b)
      [] c = "Json" -> JsonFromSlice(t, b)

MessageEncodeAsBinary(k, b) == Ok(Frame("Binary", b))

\* MessageCodec::encode: BinaryMessage wraps the bytes, TextMessage the
\* string they are the UTF-8 of (InvalidPayload when they are not UTF-8).
\* The result holds the frame; the data of a Text frame is its code points.
MessageEncode(k, b) ==
    IF k = "Binary" THEN Ok(Frame("Binary", b))
    ELSE IF FromUtf8(b).ok THEN Ok(Frame("Text", FromUtf8(b).val)) ELSE Err

MessageDecodeLenient(k, m) ==
    CASE m.kind = "Binary" -> Ok(m.data)
      [] m.kind = "Text" -> Ok(IntoBytes(m.data))
      [] OTHER -> Err

\* MessageCodec::decode: the bytes of a frame of the codec's kind,
\* InvalidPayload for any other frame.
MessageDecode(k, m) ==
    CASE k = "Binary" /\ m.kind = "Binary" -> Ok(m.data)
      [] k = "Text" /\ m.kind = "Text" -> Ok(IntoBytes(m.data))
      [] OTHER -> Err

\* ------------------------------------------------------------- timestamps
\* u64::to_be_bytes gives 8 bytes.  A byte is modelled with ByteBase values
\* instead of 256, so that the 8-byte numbers stay within TLC's integers;
\* U64 is the number of values of the 8-byte unsigned integer.
TimestampBytes == 8
ByteBase == 4
U64 == ByteBase ^ TimestampBytes

\* timestamp(): the milliseconds since the epoch, a u128, cast to u64.
timestamp(millis) == millis % U64

encode_timestamp_le(t) ==
    [i \in 1..TimestampBytes |-> (t \div (ByteBase ^ (i - 1))) % ByteBase]

\* encode_timestamp: timestamp.to_be_bytes().to_vec().into()
encode_timestamp(t) ==
    [i \in 1..TimestampBytes |-> (t \div (ByteBase ^ (TimestampBytes - i))) % ByteBase]

RECURSIVE from_be_bytes(_)
\* u64::from_be_bytes on an array of 8 bytes: the first byte is the most
\* significant.
from_be_bytes(b) ==
    IF b = <<>> THEN 0
    ELSE from_be_bytes(SubSeq(b, 1, Len(b) - 1)) * ByteBase + b[Len(b)]

\* decode_timestamp: data.try_into().map(u64::from_be_bytes)
\* .unwrap_or_default(); try_into to [u8; 8] fails on any other length.
decode_timestamp(data) ==
    IF Len(data) = TimestampBytes THEN from_be_bytes(data) ELSE 0

wrapping_sub(a, b) == (a + U64 - b) % U64

\* u64::saturating_sub
saturating_sub(a, b) == IF a >= b THEN a - b ELSE 0

\* The round-trip time reported for Message::Pong(data) at the time now:
\* timestamp().saturating_sub(decode_timestamp(data)).
Latency(now, data) == saturating_sub(now, decode_timestamp(data))

NoCall == [pc |-> "none", codec |-> "Binary", payload |-> Payload("Bytes", <<>>),
           bytes |-> Err, msg |-> Err, out |-> Err]

\* ------------------------------------------------------------------ helpers
Min(a, b) == IF a < b THEN a ELSE b
Dec(n) == IF n > 0 THEN n - 1 ELSE 0
Sat(n) == IF n < MaxLog THEN n + 1 ELSE n
Log(h, x) == IF Len(h) < MaxLog THEN Append(h, x) ELSE h

IsPrefix(s, t) == Len(s) <= Len(t) /\ SubSeq(t, 1, Len(s)) = s

VARIABLES
    \* WebSocket / Core
    guard,              \* the WebSocket and its DropGuard are alive
    tx,                 \* Core.tx, the PollSender state: Idle, Acquiring, ReadyToSend, Closed
    sender,             \* Core.tx still holds its mpsc::Sender
    timeout_fut,        \* Core.timeout_fut: "Some" (Armed) or "None" (Expired)
    delay,              \* time left on Core's Delay
    \* the two bounded channels
    in_rx,              \* frames queued from Core to the driver (in_tx -> in_rx)
    out_rx,             \* frames queued from the driver to Core (out_tx -> out_rx)
    \* driver task
    task,               \* "Spawned" (never polled), "Running", "Done"
    external_shutdown,  \* the driver's Notified futures of `shutdown` are notified
    internal_shutdown,  \* internal_shutdown.notify_one() was called
    heartbeat,          \* the heartbeat stream: "Live" or "Ended"
    interval,           \* time left until the next heartbeat tick
    fwd_in,             \* outbound half: "Running" or "Done"
    fwd_out,            \* inbound half: "Running" or "Done"
    fwd_in_item,        \* Forward::buffered_item of the outbound half
    fwd_out_item,       \* Forward::buffered_item of the inbound half
    \* native transport
    trans_tx,           \* frames written to the native sink, not yet read by the peer
    trans_rx,           \* native stream: "Open" or "Ended"
    \* history
    sent,               \* frames accepted by start_send, in order
    written,            \* Text and Binary frames written to the native sink, in order
    pinged,             \* payloads of the Pings written to the native sink, in order
    arrived,            \* Text and Binary frames decoded from the native stream, in order
    yielded,            \* frames yielded by Core::poll_next, in order
    received,           \* payloads yielded by WebSocket::poll_next, in order
    closed,             \* Core::poll_next has returned None for a Close frame
    call,               \* a call of a payload codec: its input, bytes and result
    watch,              \* time left on the timer of an observer of the connection
    enqueued,           \* per endpoint, frames the driver has put into the out channel
    pings,              \* heartbeat Pings generated
    observer,           \* calls of the Observer hooks
    idle_for,           \* time since Core last got a result from out_rx (or was built)
    last                \* outcome of the application's last call

coreVars == <<guard, tx, sender, timeout_fut, delay>>
chanVars == <<in_rx, out_rx>>
drvVars == <<task, external_shutdown, internal_shutdown, heartbeat, interval,
             fwd_in, fwd_out, fwd_in_item, fwd_out_item>>
natVars == <<trans_tx, trans_rx>>
histVars == <<sent, written, pinged, arrived, yielded, received, closed, call, watch, enqueued, pings, observer,
              idle_for, last>>
vars == <<coreVars, chanVars, drvVars, natVars, histVars>>


Set(f, e, v) == [f EXCEPT ![e] = v]

\* ------------------------------------------------------------ construction
\* WebSocket::new_internal: transport::spawn creates the channels, the
\* notifier and the (not yet polled) driver task; Core::new arms the Delay.
Fresh(e) ==
    /\ guard[e] = TRUE /\ tx[e] = "Idle" /\ sender[e] = TRUE
    /\ timeout_fut[e] = "Some" /\ delay[e] = IdleTimeout
    /\ task[e] = "Spawned" /\ heartbeat[e] = "Live"
    /\ fwd_in[e] = "Running" /\ fwd_out[e] = "Running"
    /\ trans_rx[e] = "Open"

\* An endpoint that does not exist: everything ended and released.
Absent(e) ==
    /\ guard[e] = FALSE /\ tx[e] = "Closed" /\ sender[e] = FALSE
    /\ timeout_fut[e] = "None" /\ delay[e] = 0
    /\ task[e] = "Done" /\ heartbeat[e] = "Ended"
    /\ fwd_in[e] = "Done" /\ fwd_out[e] = "Done"
    /\ trans_rx[e] = "Ended"

\* The state before any step, with the endpoints of the set present fresh
\* and the others absent.
Blank(present) ==
    /\ guard = [e \in Endpoints |-> e \in present]
    /\ tx = [e \in Endpoints |-> IF e \in present THEN "Idle" ELSE "Closed"]
    /\ sender = [e \in Endpoints |-> e \in present]
    /\ timeout_fut = [e \in Endpoints |-> IF e \in present THEN "Some" ELSE "None"]
    /\ delay = [e \in Endpoints |-> IF e \in present THEN IdleTimeout ELSE 0]
    /\ task = [e \in Endpoints |-> IF e \in present THEN "Spawned" ELSE "Done"]
    /\ heartbeat = [e \in Endpoints |-> IF e \in present THEN "Live" ELSE "Ended"]
    /\ fwd_in = [e \in Endpoints |-> IF e \in present THEN "Running" ELSE "Done"]
    /\ fwd_out = [e \in Endpoints |-> IF e \in present THEN "Running" ELSE "Done"]
    /\ trans_rx = [e \in Endpoints |-> IF e \in present THEN "Open" ELSE "Ended"]
    /\ in_rx = [e \in Endpoints |-> <<>>]
    /\ out_rx = [e \in Endpoints |-> <<>>]
    /\ external_shutdown = [e \in Endpoints |-> FALSE]
    /\ internal_shutdown = [e \in Endpoints |-> FALSE]
    /\ interval = [e \in Endpoints |-> HeartbeatInterval]
    /\ fwd_in_item = [e \in Endpoints |-> NoFrame]
    /\ fwd_out_item = [e \in Endpoints |-> NoFrame]
    /\ trans_tx = [e \in Endpoints |-> <<>>]
    /\ sent = [e \in Endpoints |-> <<>>]
    /\ written = [e \in Endpoints |-> <<>>]
    /\ pinged = [e \in Endpoints |-> <<>>]
    /\ arrived = [e \in Endpoints |-> <<>>]
    /\ yielded = [e \in Endpoints |-> <<>>]
    /\ received = [e \in Endpoints |-> <<>>]
    /\ closed = [e \in Endpoints |-> FALSE]
    /\ enqueued = [e \in Endpoints |-> 0]
    /\ pings = [e \in Endpoints |-> 0]
    /\ observer = [e \in Endpoints |-> [inbound |-> 0, pongs |-> 0, outbound |-> 0, latency |-> 0]]
    /\ idle_for = [e \in Endpoints |-> 0]
    /\ last = [e \in Endpoints |-> "New"]

Init == Blank({1}) /\ Fresh(1) /\ Absent(2) /\ call = NoCall /\ watch = 0

PairInit == Blank({1, 2}) /\ Fresh(1) /\ Fresh(2) /\ call = NoCall /\ watch = 0

\* ------------------------------------------------------------------- Core
TimeoutReadyWhenEmpty(e) ==
    (timeout_fut[e] = "None" \/ delay[e] = 0) /\ out_rx[e] = <<>>

TimeoutReadyOnce(e) == timeout_fut[e] = "Some" /\ delay[e] = 0

\* Core::poll_timeout is Ready when the Delay has fired or timeout_fut is
\* already None.
TimeoutReady(e) == timeout_fut[e] = "None" \/ delay[e] = 0

InSendersKept(e) == FALSE

\* The in channel is closed for the driver once every Sender and permit of
\* it is gone.
InSendersGone(e) == ~sender[e] /\ tx[e] # "ReadyToSend"

PollReserveNoClose(e) ==
    CASE tx[e] = "Closed" -> "Closed"
      [] tx[e] = "ReadyToSend" -> "ReadyToSend"
      [] Len(in_rx[e]) < Capacity -> "ReadyToSend"
      [] OTHER -> "Acquiring"

PollReserveUnbounded(e) ==
    CASE tx[e] = "Closed" -> "Closed"
      [] fwd_in[e] = "Done" -> "Closed"
      [] OTHER -> "ReadyToSend"

\* PollSender::poll_reserve on Core.tx: the new PollSender state.
PollReserve(e) ==
    CASE tx[e] = "Closed" -> "Closed"
      [] tx[e] = "ReadyToSend" -> "ReadyToSend"
      [] fwd_in[e] = "Done" -> "Closed"
      [] Len(in_rx[e]) < Capacity -> "ReadyToSend"
      [] OTHER -> "Acquiring"

PollReadyOutcome(state) ==
    CASE state = "ReadyToSend" -> "Ready"
      [] state = "Closed" -> "Closed"
      [] OTHER -> "Pending"

PollReadyNoTimeout(e) == PollReadyOutcome(PollReserve(e))

\* Core::poll_ready, then PollSender::poll_reserve: the outcome of poll_ready.
PollReady(e) ==
    IF TimeoutReady(e) THEN "Closed" ELSE PollReadyOutcome(PollReserve(e))

\* SinkExt::send on the WebSocket: WebSocket::poll_ready -> Core::poll_ready;
\* when that is Ready(Ok), WebSocket::start_send encodes the payload and
\* Core::start_send -> PollSender::send_item queues the frame; poll_flush
\* (PollSender::poll_flush) is always Ready(Ok).
Send(e) ==
    /\ guard[e]
    /\ timeout_fut' = Set(timeout_fut, e, IF TimeoutReady(e) THEN "None" ELSE "Some")
    /\ last' = Set(last, e, IF PollReady(e) = "Ready" THEN "Sent" ELSE PollReady(e))
    /\ IF PollReady(e) = "Ready"
       THEN LET msg == FacadeEncode(Codec(e), Len(sent[e]) + 1)
            IN /\ in_rx' = IF fwd_in[e] = "Done"
                           THEN in_rx
                           ELSE Set(in_rx, e, Append(in_rx[e], msg))
               /\ sent' = Set(sent, e, Append(sent[e], msg))
               /\ tx' = Set(tx, e, IF sender[e] THEN "Idle" ELSE "Closed")
       ELSE /\ tx' = Set(tx, e, IF TimeoutReady(e) THEN tx[e] ELSE PollReserve(e))
            /\ UNCHANGED <<in_rx, sent>>
    /\ UNCHANGED <<guard, sender, delay, out_rx, drvVars, natVars>>
    /\ UNCHANGED <<written, pinged, arrived, yielded, received, closed, call, watch, enqueued, pings, observer,
                   idle_for>>

StartSendFailedCloses(state) == "Closed"

\* WebSocket::start_send returns the encoding error before Core::start_send
\* is called: the PollSender keeps the state poll_ready left it in.
StartSendFailed(state) == state

\* SinkExt::send on the WebSocket with a payload the codec cannot encode:
\* poll_ready as in Send; when that is Ready(Ok), start_send fails in
\* codec.encode(..).and_then(MessageCodec::encode) and returns the error.
SendInvalid(e) ==
    /\ guard[e]
    /\ timeout_fut' = Set(timeout_fut, e, IF TimeoutReady(e) THEN "None" ELSE "Some")
    /\ last' = Set(last, e, IF PollReady(e) = "Ready" THEN "EncodeError" ELSE PollReady(e))
    /\ tx' = Set(tx, e, CASE TimeoutReady(e) -> tx[e]
                          [] PollReady(e) = "Ready" -> StartSendFailed(PollReserve(e))
                          [] OTHER -> PollReserve(e))
    /\ UNCHANGED <<guard, sender, delay, chanVars, drvVars, natVars>>
    /\ UNCHANGED <<sent, written, pinged, arrived, yielded, received, closed, call, watch, enqueued, pings,
                   observer, idle_for>>

CloseStateKept(state) == state

\* PollSender::close: the Sender is dropped; a permit already reserved stays.
CloseState(state) ==
    IF state \in {"Idle", "Acquiring"} THEN "Closed" ELSE state

\* WebSocket::poll_close -> Core::poll_close -> PollSender::poll_close.
PollClose(e) ==
    /\ guard[e]
    /\ sender' = Set(sender, e, FALSE)
    /\ tx' = Set(tx, e, CloseState(tx[e]))
    /\ last' = Set(last, e, "CloseOk")
    /\ UNCHANGED <<guard, timeout_fut, delay, chanVars, drvVars, natVars>>
    /\ UNCHANGED <<sent, written, pinged, arrived, yielded, received, closed, call, watch, enqueued, pings, observer,
                   idle_for>>

\* DropGuard::drop: Notify::notify_waiters marks the Notified futures that
\* exist; they are created by the first poll of the driver task.
NotifyWaiters(e) == external_shutdown[e] \/ task[e] = "Running"

\* The WebSocket is dropped: its fields go in declaration order, Core (both
\* channel ends) first, the DropGuard last.
Drop(e) ==
    /\ guard[e]
    /\ guard' = Set(guard, e, FALSE)
    /\ sender' = Set(sender, e, FALSE)
    /\ tx' = Set(tx, e, "Closed")
    /\ out_rx' = Set(out_rx, e, <<>>)
    /\ external_shutdown' = Set(external_shutdown, e, NotifyWaiters(e))
    /\ last' = Set(last, e, "Dropped")
    /\ delay' = Set(delay, e, 0)
    /\ idle_for' = Set(idle_for, e, 0)
    /\ UNCHANGED <<timeout_fut, in_rx, natVars>>
    /\ UNCHANGED <<task, internal_shutdown, heartbeat, interval, fwd_in, fwd_out,
                   fwd_in_item, fwd_out_item>>
    /\ UNCHANGED <<sent, written, pinged, arrived, yielded, received, closed, call, watch, enqueued, pings, observer>>

OutSendersKept(e) == FALSE

\* The out channel is closed for Core once the PollSender of out_tx is gone,
\* which happens when the inbound half ends.
OutSendersGone(e) == fwd_out[e] = "Done"

ClassifyHeartbeatYielded(msg) ==
    CASE msg.kind \in {"Binary", "Text", "Ping", "Pong"} -> "Yield"
      [] msg.kind = "Close" -> "End"
      [] OTHER -> "Continue"

ClassifyBinarySkipped(msg) ==
    CASE msg.kind = "Text" -> "Yield"
      [] msg.kind = "Close" -> "End"
      [] OTHER -> "Continue"

\* The match of Core::poll_next on a frame taken from the queue.
Classify(msg) ==
    CASE msg.kind \in {"Binary", "Text"} -> "Yield"
      [] msg.kind = "Close" -> "End"
      [] OTHER -> "Continue"

RECURSIVE SkipContinue(_)
\* The loop of Core::poll_next: frames classified Continue are consumed.
SkipContinue(q) ==
    IF q # <<>> /\ Classify(Head(q)) = "Continue" THEN SkipContinue(Tail(q)) ELSE q

ResetTimeoutNever(e) == delay[e]

ResetTimeoutShort(e) == IF timeout_fut[e] = "Some" THEN IdleTimeout - 1 ELSE delay[e]

ResetTimeoutLate(e) == IF timeout_fut[e] = "Some" THEN IdleTimeout + 1 ELSE delay[e]

\* Core::reset_timeout.
ResetTimeout(e) == IF timeout_fut[e] = "Some" THEN IdleTimeout ELSE delay[e]

PendingTimeoutReset(e) == IF timeout_fut[e] = "Some" THEN IdleTimeout ELSE delay[e]

\* Core::poll_next when rx.poll_next_unpin is Pending: task::ready! returns
\* before reset_timeout is reached.
PendingTimeout(e) == delay[e]

\* WebSocket::poll_next -> Core::poll_next.
PollNext(e) ==
    /\ guard[e]
    /\ IF TimeoutReady(e)
       THEN /\ timeout_fut' = Set(timeout_fut, e, "None")
            /\ last' = Set(last, e, "Eos")
            /\ UNCHANGED <<delay, out_rx, yielded, received, closed, idle_for>>
       ELSE LET rest == SkipContinue(out_rx[e])
                took == rest # <<>> \/ Len(rest) < Len(out_rx[e])
            IN /\ timeout_fut' = timeout_fut
               /\ IF rest # <<>>
                  THEN LET msg == Head(rest)
                           data == FacadeDecode(Codec(e), msg)
                       IN /\ out_rx' = Set(out_rx, e, Tail(rest))
                          /\ delay' = Set(delay, e, ResetTimeout(e))
                          /\ idle_for' = Set(idle_for, e, 0)
                          /\ IF Classify(msg) = "Yield"
                             THEN /\ yielded' = Set(yielded, e, Log(yielded[e], msg))
                                  /\ closed' = closed
                                  /\ IF data # NoFrame
                                     THEN /\ received' = Set(received, e, Log(received[e], data.data))
                                          /\ last' = Set(last, e, "Item")
                                     ELSE /\ received' = received
                                          /\ last' = Set(last, e, "None")
                             ELSE /\ last' = Set(last, e, "Eos")
                                  /\ closed' = Set(closed, e, TRUE)
                                  /\ UNCHANGED <<yielded, received>>
                  ELSE /\ out_rx' = Set(out_rx, e, <<>>)
                       /\ UNCHANGED <<yielded, received, closed>>
                       /\ IF OutSendersGone(e)
                          THEN /\ delay' = Set(delay, e, ResetTimeout(e))
                               /\ idle_for' = Set(idle_for, e, 0)
                               /\ last' = Set(last, e, "Eos")
                          ELSE /\ delay' = Set(delay, e, IF took THEN ResetTimeout(e) ELSE PendingTimeout(e))
                               /\ idle_for' = Set(idle_for, e, IF took THEN 0 ELSE idle_for[e])
                               /\ last' = Set(last, e, "Pending")
    /\ UNCHANGED <<guard, tx, sender, in_rx, drvVars, natVars>>
    /\ UNCHANGED <<sent, written, pinged, arrived, pings, observer, call, watch, enqueued>>


\* ----------------------------------------------------------------- driver
FirstTickImmediate(period) == period - period

\* heartbeat_stream: interval.reset() puts the first tick of the interval one
\* full period after its creation.
FirstTick(period) == period

\* First poll of the spawned task: the async block creates the Notified
\* futures of external_shutdown, the internal notifier and the heartbeat
\* interval (whose first tick is one period away), then polls both halves.
DriverStart(e) ==
    /\ task[e] = "Spawned"
    /\ task' = Set(task, e, "Running")
    /\ interval' = Set(interval, e, FirstTick(HeartbeatInterval))
    /\ UNCHANGED <<coreVars, chanVars, natVars, histVars>>
    /\ UNCHANGED <<external_shutdown, internal_shutdown, heartbeat, fwd_in, fwd_out,
                   fwd_in_item, fwd_out_item>>

JoinedInbound(e, fi, fo) == IF fo = "Done" THEN "Done" ELSE task[e]

JoinedEarly(e, fi, fo) == IF fi = "Done" \/ fo = "Done" THEN "Done" ELSE task[e]

\* (fwd_in, fwd_out).join(): the task ends when both halves have ended.
Joined(e, fi, fo) == IF fi = "Done" /\ fo = "Done" THEN "Done" ELSE task[e]

FwdInRunningUnlessBlocked(e) ==
    task[e] = "Running" /\ fwd_in[e] = "Running" /\ fwd_out_item[e] = NoFrame

\* The outbound half is polled: the task runs and the half has not ended.
FwdInRunning(e) == task[e] = "Running" /\ fwd_in[e] = "Running"
FwdOutRunning(e) == task[e] = "Running" /\ fwd_out[e] = "Running"

HeartbeatStopExternalOnly(e) == external_shutdown[e]

HeartbeatStopOnExpiry(e) ==
    external_shutdown[e] \/ internal_shutdown[e] \/ timeout_fut[e] = "None"

\* take_until((external_shutdown.notified(), internal_shutdown.notified()).race())
HeartbeatStop(e) == external_shutdown[e] \/ internal_shutdown[e]

\* The outbound half ends: Forward drops the native sink, the join drops the
\* merged stream (in_rx and the heartbeat).
FwdInEnds(e) ==
    /\ fwd_in' = Set(fwd_in, e, "Done")
    /\ task' = Set(task, e, Joined(e, "Done", fwd_out[e]))
    /\ heartbeat' = Set(heartbeat, e, "Ended")
    /\ in_rx' = Set(in_rx, e, <<>>)
    /\ fwd_in_item' = Set(fwd_in_item, e, NoFrame)

\* The native message m goes onto the connection.
Transmit(e, m) ==
    /\ trans_tx' = Set(trans_tx, e, Append(trans_tx[e], m))
    /\ written' = IF IsUser(m) THEN Set(written, e, Log(written[e], m)) ELSE written
    /\ pinged' = IF IsPing(m) THEN Set(pinged, e, Log(pinged[e], m.data)) ELSE pinged

FwdInForwardDropsPing(e, msg) ==
    IF Len(trans_tx[e]) < LinkCapacity
    THEN /\ Transmit(e, encode_message(msg))
         /\ fwd_in_item' = Set(fwd_in_item, e, NoFrame)
    ELSE /\ fwd_in_item' = Set(fwd_in_item, e, IF IsPing(msg) THEN NoFrame ELSE msg)
         /\ UNCHANGED <<trans_tx, written, pinged>>

FwdInForwardLossy(e, msg) ==
    IF Len(trans_tx[e]) < LinkCapacity
    THEN /\ Transmit(e, encode_message(msg))
         /\ fwd_in_item' = Set(fwd_in_item, e, NoFrame)
    ELSE /\ fwd_in_item' = Set(fwd_in_item, e, NoFrame)
         /\ UNCHANGED <<trans_tx, written, pinged>>

\* Forward of the outbound half with the frame msg taken from the merged
\* stream: written at once when the native sink is ready, else kept as
\* buffered_item.
FwdInForward(e, msg) ==
    IF Len(trans_tx[e]) < LinkCapacity
    THEN /\ Transmit(e, encode_message(msg))
         /\ fwd_in_item' = Set(fwd_in_item, e, NoFrame)
    ELSE /\ fwd_in_item' = Set(fwd_in_item, e, msg)
         /\ UNCHANGED <<trans_tx, written, pinged>>

ObserveOutboundUser(o, msg) ==
    IF IsUser(msg) THEN [o EXCEPT !.outbound = Sat(@)] ELSE o

\* inspect(|msg| observer.outbound_message(msg)) on the merged stream: every
\* frame the stream yields, user frame or heartbeat Ping, is counted.
ObserveOutbound(o, msg) == [o EXCEPT !.outbound = Sat(@)]

\* Outbound half, Forward with no buffered item, the merged stream yields a
\* frame of in_rx: it is observed and forwarded.
FwdInTake(e) ==
    /\ FwdInRunning(e)
    /\ fwd_in_item[e] = NoFrame
    /\ in_rx[e] # <<>>
    /\ FwdInForward(e, Head(in_rx[e]))
    /\ in_rx' = Set(in_rx, e, Tail(in_rx[e]))
    /\ observer' = Set(observer, e, ObserveOutbound(observer[e], Head(in_rx[e])))
    /\ UNCHANGED <<coreVars, out_rx, trans_rx>>
    /\ UNCHANGED <<task, external_shutdown, internal_shutdown, heartbeat, interval,
                   fwd_in, fwd_out, fwd_out_item>>
    /\ UNCHANGED <<sent, arrived, yielded, received, closed, call, watch, enqueued, pings, idle_for, last>>

BurstTick(period) == period - period

\* MissedTickBehavior::Delay: the tick after a tick that was taken late is
\* one full period after the moment the late tick was taken.
DelayTick(period) == period

\* heartbeat_stream: the payload of the next Ping (its generation number).
NextPing(e) == Sat(pings[e])

\* Outbound half, the merged stream yields a heartbeat: the interval has
\* ticked and neither shutdown is notified.  MissedTickBehavior::Delay: the
\* next tick is one full period after this one is taken.
FwdInHeartbeat(e) ==
    /\ FwdInRunning(e)
    /\ fwd_in_item[e] = NoFrame
    /\ heartbeat[e] = "Live"
    /\ ~HeartbeatStop(e)
    /\ interval[e] = 0
    /\ FwdInForward(e, Frame("Ping", NextPing(e)))
    /\ pings' = Set(pings, e, NextPing(e))
    /\ interval' = Set(interval, e, DelayTick(HeartbeatInterval))
    /\ observer' = Set(observer, e, ObserveOutbound(observer[e], Frame("Ping", NextPing(e))))
    /\ UNCHANGED <<coreVars, chanVars, trans_rx>>
    /\ UNCHANGED <<task, external_shutdown, internal_shutdown, heartbeat,
                   fwd_in, fwd_out, fwd_out_item>>
    /\ UNCHANGED <<sent, arrived, yielded, received, closed, call, watch, enqueued, idle_for, last>>

\* Outbound half, the heartbeat stream is polled after a shutdown was
\* notified: take_until ends it.
FwdInHeartbeatEnd(e) ==
    /\ FwdInRunning(e)
    /\ fwd_in_item[e] = NoFrame
    /\ heartbeat[e] = "Live"
    /\ HeartbeatStop(e)
    /\ heartbeat' = Set(heartbeat, e, "Ended")
    /\ UNCHANGED <<coreVars, chanVars, natVars, histVars>>
    /\ UNCHANGED <<task, external_shutdown, internal_shutdown, interval,
                   fwd_in, fwd_out, fwd_in_item, fwd_out_item>>

\* Outbound half, Forward holds a buffered frame and the native sink becomes
\* ready: the frame is encoded and written.
FwdInSend(e) ==
    /\ FwdInRunning(e)
    /\ fwd_in_item[e] # NoFrame
    /\ Len(trans_tx[e]) < LinkCapacity
    /\ Transmit(e, encode_message(fwd_in_item[e]))
    /\ fwd_in_item' = Set(fwd_in_item, e, NoFrame)
    /\ UNCHANGED <<coreVars, chanVars, trans_rx>>
    /\ UNCHANGED <<task, external_shutdown, internal_shutdown, heartbeat, interval,
                   fwd_in, fwd_out, fwd_out_item>>
    /\ UNCHANGED <<sent, arrived, yielded, received, closed, call, watch, enqueued, pings, observer, idle_for, last>>

\* Outbound half, both merged streams have ended (in_rx: closed and drained;
\* heartbeat: stopped): Forward closes the native sink and completes.
FwdInClose(e) ==
    /\ FwdInRunning(e)
    /\ fwd_in_item[e] = NoFrame
    /\ in_rx[e] = <<>> /\ InSendersGone(e)
    /\ heartbeat[e] = "Ended"
    /\ FwdInEnds(e)
    /\ UNCHANGED <<coreVars, out_rx, natVars, histVars>>
    /\ UNCHANGED <<external_shutdown, internal_shutdown, interval, fwd_out, fwd_out_item>>

\* Outbound half, the native sink fails while a frame is being written:
\* Forward returns the error and the half ends.
FwdInError(e) ==
    /\ FwdInRunning(e)
    /\ fwd_in_item[e] # NoFrame
    /\ FwdInEnds(e)
    /\ UNCHANGED <<coreVars, out_rx, natVars, histVars>>
    /\ UNCHANGED <<external_shutdown, internal_shutdown, interval, fwd_out, fwd_out_item>>

\* The inbound half ends: Forward closes the PollSender of out_tx, the Map
\* around it drops the native stream and calls internal_shutdown.notify_one().
FwdOutEnds(e) ==
    /\ fwd_out' = Set(fwd_out, e, "Done")
    /\ task' = Set(task, e, Joined(e, fwd_in[e], "Done"))
    /\ internal_shutdown' = Set(internal_shutdown, e, TRUE)
    /\ fwd_out_item' = Set(fwd_out_item, e, NoFrame)

ObserveInboundPongs(o, msg) ==
    [o EXCEPT !.inbound = IF msg.kind = "Pong" THEN Sat(@) ELSE @,
              !.pongs = IF msg.kind = "Pong" THEN Sat(@) ELSE @,
              !.latency = IF msg.kind = "Pong" THEN Sat(@) ELSE @]

ObserveInboundAll(o, msg) ==
    [o EXCEPT !.inbound = Sat(@),
              !.pongs = IF msg.kind = "Pong" THEN Sat(@) ELSE @,
              !.latency = Sat(@)]

\* inspect_ok of the inbound half: inbound_message for every frame (the
\* observer counts the frames and, of them, the Pongs), latency for a Pong.
ObserveInbound(o, msg) ==
    [o EXCEPT !.inbound = Sat(@),
              !.pongs = IF msg.kind = "Pong" THEN Sat(@) ELSE @,
              !.latency = IF msg.kind = "Pong" THEN Sat(@) ELSE @]

FwdOutForwardFiltered(e, msg) ==
    IF ~guard[e]
    THEN /\ FwdOutEnds(e)
         /\ UNCHANGED <<out_rx, enqueued>>
    ELSE /\ UNCHANGED <<task, fwd_out, internal_shutdown>>
         /\ IF IsHeartbeat(msg)
            THEN /\ UNCHANGED <<out_rx, enqueued>>
                 /\ fwd_out_item' = Set(fwd_out_item, e, NoFrame)
            ELSE IF Len(out_rx[e]) < Capacity
            THEN /\ out_rx' = Set(out_rx, e, Append(out_rx[e], msg))
                 /\ enqueued' = Set(enqueued, e, Sat(enqueued[e]))
                 /\ fwd_out_item' = Set(fwd_out_item, e, NoFrame)
            ELSE /\ UNCHANGED <<out_rx, enqueued>>
                 /\ fwd_out_item' = Set(fwd_out_item, e, msg)

\* Forward of the inbound half with the frame msg: poll_ready and start_send
\* on the PollSender of out_tx.  An error that ends the half when Core's
\* receiver is gone; queued when the channel has room; else kept as
\* buffered_item.
FwdOutForward(e, msg) ==
    IF ~guard[e]
    THEN /\ FwdOutEnds(e)
         /\ UNCHANGED <<out_rx, enqueued>>
    ELSE /\ UNCHANGED <<task, fwd_out, internal_shutdown>>
         /\ IF Len(out_rx[e]) < Capacity
            THEN /\ out_rx' = Set(out_rx, e, Append(out_rx[e], msg))
                 /\ enqueued' = Set(enqueued, e, Sat(enqueued[e]))
                 /\ fwd_out_item' = Set(fwd_out_item, e, NoFrame)
            ELSE /\ UNCHANGED <<out_rx, enqueued>>
                 /\ fwd_out_item' = Set(fwd_out_item, e, msg)

\* Inbound half, Forward with no buffered item, the native stream yields the
\* native message m: it is decoded, observed and forwarded.
FwdOutItem(e, m) ==
    /\ FwdOutRunning(e)
    /\ fwd_out_item[e] = NoFrame
    /\ ~external_shutdown[e]
    /\ trans_rx[e] = "Open"
    /\ FwdOutForward(e, decode_message(m))
    /\ arrived' = IF IsUser(decode_message(m))
                  THEN Set(arrived, e, Log(arrived[e], decode_message(m)))
                  ELSE arrived
    /\ observer' = Set(observer, e, ObserveInbound(observer[e], decode_message(m)))
    /\ UNCHANGED <<coreVars, in_rx, trans_rx>>
    /\ UNCHANGED <<external_shutdown, heartbeat, interval, fwd_in, fwd_in_item>>
    /\ UNCHANGED <<sent, written, pinged, yielded, received, closed, call, watch, pings, idle_for, last>>

\* Inbound half against the environment: the peer delivers a native message
\* of one of the given kinds.
FwdOutRecv(e, kinds) ==
    /\ \E k \in kinds :
          FwdOutItem(e, Frame(k, IF k \in UserKinds THEN Len(arrived[e]) + 1 ELSE 0))
    /\ UNCHANGED trans_tx

\* Inbound half against a connected endpoint: the next frame the peer wrote.
FwdOutRecvPeer(e) ==
    /\ trans_tx[Peer(e)] # <<>>
    /\ FwdOutItem(e, Head(trans_tx[Peer(e)]))
    /\ trans_tx' = Set(trans_tx, Peer(e), Tail(trans_tx[Peer(e)]))

\* Inbound half, the native stream yields an error: map_err wraps it, Forward
\* returns it and the half ends.
FwdOutError(e) ==
    /\ FwdOutRunning(e)
    /\ fwd_out_item[e] = NoFrame
    /\ ~external_shutdown[e]
    /\ trans_rx[e] = "Open"
    /\ FwdOutEnds(e)
    /\ UNCHANGED <<coreVars, chanVars, natVars, histVars>>
    /\ UNCHANGED <<external_shutdown, heartbeat, interval, fwd_in, fwd_in_item>>

\* Inbound half, the stream ends: take_until sees external_shutdown notified,
\* or the native stream has ended.
FwdOutEnd(e) ==
    /\ FwdOutRunning(e)
    /\ fwd_out_item[e] = NoFrame
    /\ external_shutdown[e] \/ trans_rx[e] = "Ended"
    /\ FwdOutEnds(e)
    /\ UNCHANGED <<coreVars, chanVars, natVars, histVars>>
    /\ UNCHANGED <<external_shutdown, heartbeat, interval, fwd_in, fwd_in_item>>

\* Inbound half, Forward holds a buffered frame and the PollSender of out_tx
\* becomes ready (room in the channel) or fails (Core's receiver is gone).
FwdOutSend(e) ==
    /\ FwdOutRunning(e)
    /\ fwd_out_item[e] # NoFrame
    /\ ~guard[e] \/ Len(out_rx[e]) < Capacity
    /\ FwdOutForward(e, fwd_out_item[e])
    /\ UNCHANGED <<coreVars, in_rx, natVars>>
    /\ UNCHANGED <<sent, written, pinged, arrived, yielded, received, closed, call, watch,
                   pings, observer, idle_for, last>>
    /\ UNCHANGED <<external_shutdown, heartbeat, interval, fwd_in, fwd_in_item>>

\* ------------------------------------------------------------ environment
\* The peer reads one frame from the connection.
PeerRead(e) ==
    /\ trans_tx[e] # <<>>
    /\ trans_tx' = Set(trans_tx, e, Tail(trans_tx[e]))
    /\ UNCHANGED <<coreVars, chanVars, drvVars, trans_rx, histVars>>

\* The peer disconnects: the native stream ends.
PeerDisconnect(e) ==
    /\ trans_rx[e] = "Open"
    /\ task[e] # "Done"
    /\ trans_rx' = Set(trans_rx, e, "Ended")
    /\ UNCHANGED <<coreVars, chanVars, drvVars, trans_tx, histVars>>

\* Between connected endpoints: once the peer's task is over (its transport
\* dropped) and what it wrote is read, the native stream ends.
LinkClose(e) ==
    /\ trans_rx[e] = "Open"
    /\ task[Peer(e)] = "Done"
    /\ trans_tx[Peer(e)] = <<>>
    /\ trans_rx' = Set(trans_rx, e, "Ended")
    /\ UNCHANGED <<coreVars, chanVars, drvVars, trans_tx, histVars>>

\* One unit of time passes for every running timer.
Tick ==
    /\ delay' = [e \in Endpoints |->
                    IF guard[e] /\ timeout_fut[e] = "Some" THEN Dec(delay[e]) ELSE delay[e]]
    /\ interval' = [e \in Endpoints |->
                    IF task[e] = "Running" /\ heartbeat[e] = "Live"
                    THEN Dec(interval[e]) ELSE interval[e]]
    /\ idle_for' = [e \in Endpoints |->
                    IF guard[e] /\ timeout_fut[e] = "Some"
                    THEN Min(idle_for[e] + 1, IdleTimeout) ELSE idle_for[e]]
    /\ watch' = Dec(watch)
    /\ <<delay', interval', idle_for', watch'>> # <<delay, interval, idle_for, watch>>
    /\ UNCHANGED <<guard, tx, sender, timeout_fut, chanVars, natVars>>
    /\ UNCHANGED <<task, external_shutdown, internal_shutdown, heartbeat,
                   fwd_in, fwd_out, fwd_in_item, fwd_out_item>>
    /\ UNCHANGED <<sent, written, pinged, arrived, yielded, received, closed, call, enqueued,
                   pings, observer, last>>

\* The peer reads a Ping from the connection and its WebSocket library
\* answers it with a Pong of the same payload, which the inbound half takes.
PeerEcho(e) ==
    /\ trans_tx[e] # <<>>
    /\ IsPing(Head(trans_tx[e]))
    /\ FwdOutItem(e, Frame("Pong", Head(trans_tx[e]).data))
    /\ trans_tx' = Set(trans_tx, e, Tail(trans_tx[e]))

\* ---------------------------------------------------------- specifications
Driver(e) ==
    \/ DriverStart(e)
    \/ FwdInTake(e)
    \/ FwdInSend(e)
    \/ FwdInHeartbeatEnd(e)
    \/ FwdInClose(e)
    \/ FwdOutSend(e)
    \/ FwdOutEnd(e)

\* Endpoint e with its application, against a peer that delivers at most
\* maxArrive native messages of the given kinds, while the application sends
\* at most maxSend payloads.
System(e, maxSend, maxArrive, kinds) ==
    \/ (Len(sent[e]) < maxSend /\ Send(e))
    \/ PollClose(e)
    \/ PollNext(e)
    \/ Drop(e)
    \/ Driver(e)
    \/ FwdInError(e)
    \/ (observer[e].inbound < maxArrive /\ FwdOutRecv(e, kinds))
    \/ FwdOutError(e)
    \/ PeerRead(e)
    \/ PeerDisconnect(e)

\* The peer of Spec sends text messages and answers the heartbeats.
EchoKinds == {"Text", "Pong"}

\* At most maxPing heartbeats are generated.
Heartbeat(e, maxPing) == pings[e] < maxPing /\ FwdInHeartbeat(e)

Next ==
    \/ System(1, MaxSend, MaxArrive, EchoKinds)
    \/ Heartbeat(1, MaxPing)
    \/ Tick

Spec == Init /\ [][Next]_vars

\* The same system with the depth on the receiving side: the peer delivers
\* any native message.
RecvNext ==
    \/ System(1, RecvSend, RecvArrive, NativeKinds)
    \/ Heartbeat(1, RecvPing)
    \/ Tick

RecvSpec == Init /\ [][RecvNext]_vars

\* The same system whose application also sends payloads that its codec
\* cannot encode, against a peer that sends text messages.
SendNext ==
    \/ System(1, MaxSend, RecvArrive, {"Text"})
    \/ SendInvalid(1)
    \/ Heartbeat(1, RecvPing)
    \/ Tick

SendSpec == Init /\ [][SendNext]_vars

\* ----------------------------------------------------- the payload codecs
RECURSIVE SeqsUpTo(_, _)
\* The sequences over S of length at most n.
SeqsUpTo(S, n) ==
    IF n = 0 THEN {<<>>}
    ELSE LET shorter == SeqsUpTo(S, n - 1)
         IN shorter \cup {Append(q, x) : q \in shorter, x \in S}

SampleBytes == {0, 97, 255}
SampleChars == {97, 233}
SampleNumbers == {0, 7, 42}

\* The payloads of each built-in codec that the calls are made with.
Payloads(c) ==
    CASE c = "Binary" -> {Payload("Bytes", v) : v \in SeqsUpTo(SampleBytes, MaxBytes)}
      [] c = "Plaintext" -> {Payload("String", v) : v \in SeqsUpTo(SampleChars, MaxChars)}
      [] c = "Json" -> {Payload(t, <<n>>) : t \in {"u64", "f64", "Foo"}, n \in SampleNumbers}
                         \cup {NaN, Payload("Map", <<>>)}

DataCodecs == {"Binary", "Plaintext", "Json"}

\* The frames a frame codec is asked to decode: frames of every kind.
SampleFrames ==
    {Frame("Text", v) : v \in SeqsUpTo(SampleChars, MaxBytes)}
      \cup {Frame(k, v) : k \in {"Binary", "Ping", "Pong"}, v \in SeqsUpTo(SampleBytes, MaxBytes)}
      \cup {Frame("Close", <<>>)}

\* Readings of the clock, in milliseconds since the epoch, up to values that
\* do not fit 64 bits.
SampleMillis ==
    {0, 1, ByteBase - 1, ByteBase, ByteBase ^ (TimestampBytes - 1) + 2, U64 - 1, U64, U64 + 1}

\* Pong payloads that are not 8 bytes long.
SampleData ==
    {v \in SeqsUpTo({0, ByteBase - 1}, TimestampBytes + 1) : Len(v) # TimestampBytes}

\* No endpoint exists; one call is about to be made: a payload codec with
\* one of its payloads, a frame codec with a frame, the heartbeat stream at
\* a reading of the clock, or the inbound half with a Pong whose payload is
\* not a timestamp.
CodecInit ==
    /\ Blank({}) /\ Absent(1) /\ Absent(2)
    /\ watch = 0
    /\ \/ \E c \in DataCodecs : \E p \in Payloads(c) :
             call = [NoCall EXCEPT !.pc = "start", !.codec = c, !.payload = p]
       \/ \E k \in UserKinds : \E msg \in SampleFrames :
             call = [NoCall EXCEPT !.pc = "frame", !.codec = k, !.msg = Ok(msg)]
       \/ \E ms \in SampleMillis :
             call = [NoCall EXCEPT !.pc = "tick", !.payload = Payload("u64", <<timestamp(ms)>>)]
       \/ \E data \in SampleData :
             call = [NoCall EXCEPT !.pc = "pong", !.msg = Ok(Frame("Pong", data))]

\* codec.encode(payload)
CodecEncode ==
    /\ call.pc = "start"
    /\ call' = [call EXCEPT !.pc = "encoded",
                            !.bytes = DataEncode(call.codec, call.payload)]
    /\ UNCHANGED <<coreVars, chanVars, drvVars, natVars>>
    /\ UNCHANGED <<sent, written, pinged, arrived, yielded, received, closed, watch,
                   enqueued, pings, observer, idle_for, last>>

\* codec.decode(bytes) on the bytes that encode produced
CodecDecode ==
    /\ call.pc = "encoded"
    /\ call.bytes.ok
    /\ call' = [call EXCEPT !.pc = "decoded",
                            !.out = DataDecode(call.codec, call.payload.ty, call.bytes.val)]
    /\ UNCHANGED <<coreVars, chanVars, drvVars, natVars>>
    /\ UNCHANGED <<sent, written, pinged, arrived, yielded, received, closed, watch,
                   enqueued, pings, observer, idle_for, last>>

\* WebSocket::start_send, second half: MessageCodec::encode of the encoded
\* bytes gives the frame handed to Core.
CodecFrame ==
    /\ call.pc = "encoded"
    /\ call.bytes.ok
    /\ call' = [call EXCEPT !.pc = "framed",
                            !.msg = MessageEncode(MessageCodecKind(call.codec), call.bytes.val)]
    /\ UNCHANGED <<coreVars, chanVars, drvVars, natVars>>
    /\ UNCHANGED <<sent, written, pinged, arrived, yielded, received, closed, watch,
                   enqueued, pings, observer, idle_for, last>>

\* The frame crosses the connection: encode_message by the sender's driver,
\* decode_message by the receiver's.
CodecTransfer ==
    /\ call.pc = "framed"
    /\ call.msg.ok
    /\ call' = [call EXCEPT !.pc = "transferred",
                            !.msg = Ok(decode_message(encode_message(call.msg.val)))]
    /\ UNCHANGED <<coreVars, chanVars, drvVars, natVars>>
    /\ UNCHANGED <<sent, written, pinged, arrived, yielded, received, closed, watch,
                   enqueued, pings, observer, idle_for, last>>

\* WebSocket::poll_next of the receiver: MessageCodec::decode(msg)
\* .and_then(codec.decode).
CodecReceive ==
    /\ call.pc = "transferred"
    /\ LET data == MessageDecode(MessageCodecKind(call.codec), call.msg.val)
       IN call' = [call EXCEPT !.pc = "received",
                               !.out = IF data.ok
                                       THEN DataDecode(call.codec, call.payload.ty, data.val)
                                       ELSE Err]
    /\ UNCHANGED <<coreVars, chanVars, drvVars, natVars>>
    /\ UNCHANGED <<sent, written, pinged, arrived, yielded, received, closed, watch,
                   enqueued, pings, observer, idle_for, last>>

\* MessageCodec::decode of the frame codec call.codec on a frame.
CodecUnframe ==
    /\ call.pc = "frame"
    /\ call' = [call EXCEPT !.pc = "unframed",
                            !.out = MessageDecode(call.codec, call.msg.val)]
    /\ UNCHANGED <<coreVars, chanVars, drvVars, natVars>>
    /\ UNCHANGED <<sent, written, pinged, arrived, yielded, received, closed, watch,
                   enqueued, pings, observer, idle_for, last>>

\* heartbeat_stream, one tick: Message::Ping(encode_timestamp(timestamp())).
HeartbeatPing ==
    /\ call.pc = "tick"
    /\ call' = [call EXCEPT !.pc = "ping",
                            !.bytes = Ok(encode_timestamp(call.payload.val[1])),
                            !.msg = Ok(Frame("Ping", encode_timestamp(call.payload.val[1])))]
    /\ UNCHANGED <<coreVars, chanVars, drvVars, natVars>>
    /\ UNCHANGED <<sent, written, pinged, arrived, yielded, received, closed, watch,
                   enqueued, pings, observer, idle_for, last>>

\* The peer answers the Ping with a Pong that carries the same payload.
HeartbeatPong ==
    /\ call.pc = "ping"
    /\ call' = [call EXCEPT !.pc = "pong", !.msg = Ok(Frame("Pong", call.msg.val.data))]
    /\ UNCHANGED <<coreVars, chanVars, drvVars, natVars>>
    /\ UNCHANGED <<sent, written, pinged, arrived, yielded, received, closed, watch,
                   enqueued, pings, observer, idle_for, last>>

\* decode_timestamp on the payload of the Pong.
TimestampDecode ==
    /\ call.pc = "pong"
    /\ call' = [call EXCEPT !.pc = "decoded_timestamp",
                            !.out = Ok(<<decode_timestamp(call.msg.val.data)>>)]
    /\ UNCHANGED <<coreVars, chanVars, drvVars, natVars>>
    /\ UNCHANGED <<sent, written, pinged, arrived, yielded, received, closed, watch,
                   enqueued, pings, observer, idle_for, last>>

\* inspect_ok of the inbound half on Message::Pong(data) at some reading of
\* the clock: the latency handed to observer.latency, kept with the time.
ObserveLatency ==
    /\ call.pc = "pong"
    /\ \E ms \in SampleMillis :
          call' = [call EXCEPT !.pc = "latency",
                              !.out = Ok(<<timestamp(ms),
                                           Latency(timestamp(ms), call.msg.val.data)>>)]
    /\ UNCHANGED <<coreVars, chanVars, drvVars, natVars>>
    /\ UNCHANGED <<sent, written, pinged, arrived, yielded, received, closed, watch,
                   enqueued, pings, observer, idle_for, last>>

CodecNext ==
    \/ CodecEncode
    \/ CodecDecode
    \/ CodecFrame
    \/ CodecTransfer
    \/ CodecReceive
    \/ CodecUnframe
    \/ HeartbeatPing
    \/ HeartbeatPong
    \/ TimestampDecode
    \/ ObserveLatency

CodecSpec == CodecInit /\ [][CodecNext]_vars

\* A connection observed for MaxTime units of time (the heartbeat test): the
\* driver, the peer and the caller, which keeps a receive pending, act as
\* soon as they can, so time passes only once everything due is done.  The
\* peer reads what is written and answers every Ping with a Pong.
MaxTime == MaxLog * HeartbeatInterval
Elapsed == MaxTime - watch

Settled(e) ==
    /\ task[e] = "Running"
    /\ interval[e] > 0
    /\ in_rx[e] = <<>>
    /\ fwd_in_item[e] = NoFrame
    /\ trans_tx[e] = <<>>
    /\ fwd_out_item[e] = NoFrame
    /\ out_rx[e] = <<>>

BeatInit == Blank({1}) /\ Fresh(1) /\ Absent(2) /\ call = NoCall /\ watch = MaxTime

BeatNext ==
    \/ DriverStart(1)
    \/ FwdInHeartbeat(1)
    \/ (Len(sent[1]) < BeatSend /\ Send(1))
    \/ FwdInTake(1)
    \/ FwdInSend(1)
    \/ (trans_tx[1] # <<>> /\ ~IsPing(Head(trans_tx[1])) /\ PeerRead(1))
    \/ PeerEcho(1)
    \/ PollNext(1)
    \/ (Settled(1) /\ watch > 0 /\ Tick)

BeatSpec == BeatInit /\ [][BeatNext]_vars


\* Scheduling of endpoint e: the runtime polls the driver task whenever one
\* of its halves can make progress, time passes, and the caller keeps
\* awaiting its receive.
DriverFair(e) ==
    /\ WF_vars(DriverStart(e))
    /\ WF_vars(FwdInTake(e))
    /\ WF_vars(FwdInSend(e))
    /\ WF_vars(FwdInHeartbeatEnd(e))
    /\ WF_vars(FwdInClose(e))
    /\ WF_vars(FwdOutSend(e))
    /\ WF_vars(FwdOutEnd(e))

\* The peer of FairSpec sends text messages and a Close.
SessionKinds == {"Text", "Close"}

\* The single endpoint under fair scheduling, its peer reading what is
\* written; what the peer delivers, and whether it disconnects, stays free.
\* Heartbeats are generated without bound.
FairNext ==
    \/ System(1, FairSend, FairArrive, SessionKinds)
    \/ FwdInHeartbeat(1)
    \/ Tick

FairSpec ==
    /\ Init /\ [][FairNext]_vars
    /\ DriverFair(1)
    /\ WF_vars(FwdInHeartbeat(1))
    /\ WF_vars(PollNext(1))
    /\ WF_vars(PeerRead(1))
    /\ WF_vars(Tick)

\* Two endpoints connected to each other (integration test timeout_server):
\* the application of endpoint 1 receives until its Core has expired and then
\* drops the WebSocket, the application of endpoint 2 sends and keeps
\* receiving.  Both drivers run and generate heartbeats without bound.
PairNext ==
    \/ PollNext(1)
    \/ (timeout_fut[1] = "None" /\ Drop(1))
    \/ (Len(sent[2]) < PairSend /\ Send(2))
    \/ PollNext(2)
    \/ \E e \in Endpoints :
          \/ Driver(e)
          \/ FwdInHeartbeat(e)
          \/ FwdOutRecvPeer(e)
          \/ LinkClose(e)
    \/ Tick

PairSpec ==
    /\ PairInit /\ [][PairNext]_vars
    /\ \A e \in Endpoints :
          /\ DriverFair(e)
          /\ WF_vars(FwdInHeartbeat(e))
          /\ WF_vars(FwdOutRecvPeer(e))
          /\ WF_vars(LinkClose(e))
    /\ WF_vars(PollNext(2))
    /\ WF_vars(Tick)

\* The single endpoint with a caller that sends and is free to stop
\* receiving, against a peer that sends text messages and reads what is
\* written.  Heartbeats are generated without bound.  tokio_stream's merge
\* alternates the stream it polls first, so neither in_rx nor the heartbeat
\* is passed over for ever when it is ready again and again.
StallNext ==
    \/ (Len(sent[1]) < MaxSend /\ Send(1))
    \/ PollNext(1)
    \/ DriverStart(1)
    \/ FwdInTake(1)
    \/ FwdInSend(1)
    \/ FwdInHeartbeat(1)
    \/ FwdOutSend(1)
    \/ (observer[1].inbound < MaxArrive /\ FwdOutRecv(1, {"Text"}))
    \/ PeerRead(1)
    \/ Tick

StallSpec ==
    /\ Init /\ [][StallNext]_vars
    /\ WF_vars(DriverStart(1))
    /\ SF_vars(FwdInTake(1))
    /\ SF_vars(FwdInHeartbeat(1))
    /\ WF_vars(FwdInSend(1))
    /\ WF_vars(PeerRead(1))
    /\ WF_vars(Tick)


\* ------------------------------------------------------------------ claims
UserOf(q) == SelectSeq(q, IsUser)
ItemSeq(m) == IF m = NoFrame THEN <<>> ELSE <<m>>
Generated(n) == [i \in 1..n |-> i]
Armed(e) == guard[e] /\ timeout_fut[e] = "Some"

C3_IdleTimeout ==
    [][/\ (PollNext(1) /\ idle_for[1] >= IdleTimeout)
          => (last'[1] = "Eos" /\ timeout_fut'[1] = "None" /\ yielded' = yielded)
       /\ (PollNext(1) /\ OutSendersGone(1) /\ out_rx[1] = <<>>)
          => (last'[1] = "Eos" /\ yielded' = yielded)]_vars

C3_Witness ==
    /\ guard[1]
    /\ idle_for[1] >= IdleTimeout
    /\ timeout_fut[1] = "None"
    /\ last[1] = "Eos"

\* C4: once Core is Expired it stays Expired, every receive poll yields
\* end-of-stream and no frame is yielded any more, whatever is queued.
C4_ExpiredTerminal ==
    [][(guard[1] /\ timeout_fut[1] = "None")
        => /\ timeout_fut'[1] = "None"
           /\ yielded' = yielded
           /\ received' = received
           /\ PollNext(1) => last'[1] = "Eos"]_vars

C4_Witness ==
    /\ guard[1]
    /\ timeout_fut[1] = "None"
    /\ out_rx[1] # <<>>
    /\ last[1] = "Eos"

\* C5: a send attempted once idle_timeout has passed fails with Closed and
\* queues nothing, and the receive poll that follows yields end-of-stream.
C5_SendAfterDeadline ==
    [][/\ (Send(1) /\ idle_for[1] >= IdleTimeout)
          => (last'[1] = "Closed" /\ in_rx' = in_rx /\ sent' = sent)
       /\ (PollNext(1) /\ idle_for[1] >= IdleTimeout /\ last[1] = "Closed")
          => last'[1] = "Eos"]_vars

C5_Witness ==
    /\ guard[1]
    /\ idle_for[1] >= IdleTimeout
    /\ timeout_fut[1] = "None"
    /\ last[1] = "Closed"
    /\ tx[1] = "Idle"

C10_NoHeartbeatYielded ==
    /\ \A i \in 1..Len(yielded[1]) : yielded[1][i].kind \in UserKinds
    /\ \A i \in 1..Len(received[1]) :
         \E j \in 1..Len(yielded[1]) :
            yielded[1][j] = Frame(MessageCodecKind(Codec(1)), received[1][i])

C10_Witness ==
    /\ guard[1]
    /\ observer[1].latency >= 1
    /\ out_rx[1] = <<>>
    /\ fwd_out_item[1] = NoFrame
    /\ Len(received[1]) >= 1

\* C6 as stated: once the WebSocket is dropped the driver task terminates,
\* both halves ended, whatever the peer does or does not do.
C6_DropTerminates ==
    (~guard[1]) ~> (task[1] = "Done")

C9_ExpiryReleasesPeer ==
    (timeout_fut[1] = "None" /\ ~guard[1])
        ~> (task[1] = "Done" /\ last[2] = "Eos")

\* C11 as stated: once Core::poll_next has returned end-of-stream for a Close
\* frame, no frame is yielded any more and every receive poll yields
\* end-of-stream.
C11_CloseTerminal ==
    [][closed[1] => /\ yielded' = yielded
                    /\ received' = received
                    /\ PollNext(1) => last'[1] = "Eos"]_vars

\* C12 as stated: the receive of the facade never returns Ready(None) for a
\* frame that Core yielded and that fails decoding; the frame is skipped.
C12_DecodeFailureSkipped ==
    [][PollNext(1) => last'[1] # "None"]_vars

\* C13: a send whose encoding fails returns the error, queues nothing and
\* leaves the idle deadline, the queues, the driver and the connection as
\* they were; the send of a valid payload that follows, made before the idle
\* deadline, is accepted.
C13_EncodeFailure ==
    [][/\ (SendInvalid(1) /\ last'[1] = "EncodeError")
          => /\ UNCHANGED <<guard, sender, timeout_fut, delay, chanVars, drvVars, natVars>>
             /\ sent' = sent
       /\ (Send(1) /\ last[1] = "EncodeError" /\ ~TimeoutReady(1))
          => /\ last'[1] = "Sent"
             /\ Len(sent'[1]) = Len(sent[1]) + 1]_vars

C13_Witness ==
    /\ guard[1]
    /\ task[1] = "Running"
    /\ last[1] = "EncodeError"
    /\ tx[1] = "ReadyToSend"
    /\ Len(sent[1]) >= 1
    /\ written[1] = sent[1]

C16_HeartbeatCount ==
    /\ pings[1] <= Elapsed \div HeartbeatInterval
    /\ pings[1] + 1 >= Elapsed \div HeartbeatInterval
    /\ observer[1].pongs <= pings[1]
    /\ Settled(1) => /\ pings[1] = Elapsed \div HeartbeatInterval
                     /\ observer[1].pongs = pings[1]

C16_Witness ==
    /\ Settled(1)
    /\ Elapsed = 2 * HeartbeatInterval
    /\ pings[1] = 2
    /\ observer[1].pongs = 2
    /\ pinged[1] = <<1, 2>>

\* --------------------------------------------------------------------- C17
\* C17: the observer gets exactly one latency report for every inbound Pong
\* and none for any other inbound frame: the reports number the Pongs among
\* the inbound frames it has seen.
C17_LatencyPerPong ==
    /\ observer[1].latency = observer[1].pongs
    /\ observer[1].pongs <= observer[1].inbound

C17_Witness ==
    /\ observer[1].inbound = 2
    /\ observer[1].pongs = 1
    /\ observer[1].latency = 1
    /\ Len(arrived[1]) = 1

\* --------------------------------------------------------------------- C18
\* C18: neither channel ever holds more than Capacity frames; a send on an
\* open, unexpired Core that finds the channel to the driver full is neither
\* accepted nor failed but left pending, and it is accepted once the driver
\* has taken a frame.
C18_BoundedQueues ==
    /\ [](\A e \in Endpoints : Len(in_rx[e]) <= Capacity /\ Len(out_rx[e]) <= Capacity)
    /\ [][(Send(1) /\ Len(in_rx[1]) = Capacity /\ tx[1] # "Closed" /\ ~TimeoutReady(1)
                   /\ fwd_in[1] # "Done")
            => /\ last'[1] = "Pending"
               /\ tx'[1] = "Acquiring"
               /\ in_rx' = in_rx
               /\ sent' = sent]_vars
    /\ [][(Send(1) /\ tx[1] = "Acquiring" /\ Len(in_rx[1]) < Capacity /\ ~TimeoutReady(1)
                   /\ fwd_in[1] # "Done")
            => /\ last'[1] = "Sent"
               /\ Len(in_rx'[1]) = Len(in_rx[1]) + 1]_vars

C18_Witness ==
    /\ Len(in_rx[1]) = Capacity
    /\ tx[1] = "Acquiring"
    /\ last[1] = "Pending"
    /\ Len(out_rx[1]) = Capacity
    /\ fwd_out_item[1] # NoFrame

\* --------------------------------------------------------------------- C19
\* C19: with the idle timeout longer than the heartbeat interval, a peer
\* that answers every Ping at once and a caller that keeps a receive
\* pending, Core never expires: its idle deadline is never used up.
C19_KeptAlive ==
    IdleTimeout > HeartbeatInterval
       => /\ timeout_fut[1] = "Some"
          /\ last[1] \notin {"Eos", "Closed"}
          /\ Settled(1) => delay[1] > 0

C19_Witness ==
    /\ watch = 0
    /\ Settled(1)
    /\ timeout_fut[1] = "Some"
    /\ delay[1] = IdleTimeout
    /\ idle_for[1] = 0
    /\ observer[1].pongs = MaxLog
    /\ last[1] = "Pending"

\* --------------------------------------------------------------------- C20
\* C20: once the external shutdown is notified neither half processes
\* another frame: nothing more is written to the native sink and nothing
\* more is put into the channel to Core, whatever is still queued.
C20_TriggerStopsBoth ==
    [][external_shutdown[1]
          => /\ written' = written
             /\ pinged' = pinged
             /\ Len(trans_tx'[1]) <= Len(trans_tx[1])
             /\ Len(out_rx'[1]) <= Len(out_rx[1])]_vars

\* --------------------------------------------------------------------- C21
\* C21: the external shutdown signal is never lost: whenever the DropGuard
\* is gone and the driver task is running, the driver has the notification,
\* also when the guard went before the first poll of the task.
C21_SignalNeverLost ==
    (~guard[1] /\ task[1] = "Running") => external_shutdown[1]

C23_InternalStopsHeartbeat ==
    /\ [](fwd_out[1] = "Done" => internal_shutdown[1])
    /\ [][internal_shutdown[1] => pings' = pings]_vars
    /\ [][(fwd_out[1] = "Running" /\ fwd_out'[1] = "Done")
            => \/ trans_rx[1] = "Ended"
               \/ external_shutdown[1]
               \/ ~guard[1]
               \/ FwdOutError(1)]_vars

C23_Witness ==
    /\ fwd_out[1] = "Done"
    /\ internal_shutdown[1]
    /\ ~external_shutdown[1]
    /\ guard[1]
    /\ fwd_in[1] = "Running"
    /\ heartbeat[1] = "Live"
    /\ interval[1] = 0
    /\ pings[1] = 1

\* --------------------------------------------------------------------- C24
\* C24: an error of the native stream ends the inbound half and nothing
\* else: the outbound half and the task go on; a receive poll never returns
\* an error, and the poll that finds the half ended and the queue without a
\* frame to take returns end-of-stream.
C24_ReceiveErrorEndsInbound ==
    /\ [][FwdOutError(1)
            => /\ fwd_out'[1] = "Done"
               /\ fwd_in'[1] = fwd_in[1]
               /\ fwd_in[1] = "Running" => task'[1] = "Running"
               /\ UNCHANGED <<heartbeat, in_rx, out_rx, fwd_in_item, trans_tx>>]_vars
    /\ [][PollNext(1) => last'[1] \in {"Item", "None", "Eos", "Pending"}]_vars
    /\ [][(PollNext(1) /\ fwd_out[1] = "Done" /\ SkipContinue(out_rx[1]) = <<>>)
            => last'[1] = "Eos"]_vars

C24_Witness ==
    /\ fwd_out[1] = "Done"
    /\ trans_rx[1] = "Open"
    /\ ~external_shutdown[1]
    /\ guard[1]
    /\ timeout_fut[1] = "Some"
    /\ last[1] = "Eos"
    /\ task[1] = "Running"
    /\ fwd_in[1] = "Running"
    /\ Len(written[1]) = MaxSend

\* --------------------------------------------------------------------- C25
\* C25: a receive poll of an Armed Core that takes anything from the queue,
\* a Ping or Pong as much as a Text or Binary frame, puts the idle deadline
\* a full IdleTimeout ahead.
C25_AnyFrameResets ==
    [][(PollNext(1) /\ timeout_fut[1] = "Some" /\ delay[1] > 0 /\ out_rx[1] # <<>>)
        => /\ delay'[1] = IdleTimeout
           /\ idle_for'[1] = 0
           /\ timeout_fut'[1] = "Some"]_vars

C25_Witness ==
    /\ timeout_fut[1] = "Some"
    /\ last[1] = "Pending"
    /\ observer[1].inbound = 1
    /\ arrived[1] = <<>>
    /\ out_rx[1] = <<>>
    /\ fwd_out_item[1] = NoFrame
    /\ pings[1] = 1
    /\ delay[1] = IdleTimeout
    /\ idle_for[1] = 0

\* --------------------------------------------------------------------- C26
\* C26: the idle deadline is put ahead only by a receive poll that gets a
\* result from the queue (a frame, or its end): a send or a close leaves it
\* alone, and so does a frame the driver queues.
C26_OnlyReceiveMovesDeadline ==
    /\ [][delay'[1] > delay[1]
            => PollNext(1) /\ (out_rx[1] # <<>> \/ fwd_out[1] = "Done")]_vars
    /\ [][(Send(1) \/ PollClose(1)) => delay' = delay]_vars
    /\ [][Len(out_rx'[1]) > Len(out_rx[1]) => delay' = delay]_vars

C26_Witness ==
    /\ timeout_fut[1] = "Some"
    /\ delay[1] = IdleTimeout - 1
    /\ Len(out_rx[1]) = Capacity
    /\ last[1] = "Sent"
    /\ Len(sent[1]) = MaxSend

\* --------------------------------------------------------------------- C27
\* C27: a receive poll that finds the idle deadline passed returns
\* end-of-stream and takes nothing from the queue; what is queued then is
\* never yielded.
C27_ExpiryLeavesQueue ==
    /\ [][(PollNext(1) /\ (timeout_fut[1] = "None" \/ delay[1] = 0))
            => /\ last'[1] = "Eos"
               /\ out_rx' = out_rx
               /\ yielded' = yielded
               /\ received' = received]_vars
    /\ [][timeout_fut[1] = "None" => (yielded' = yielded /\ received' = received)]_vars

C27_Witness ==
    /\ guard[1]
    /\ timeout_fut[1] = "None"
    /\ last[1] = "Eos"
    /\ Len(out_rx[1]) = Capacity
    /\ IsUser(Head(out_rx[1]))
    /\ yielded[1] = <<>>

C30_ObservedBeforeQueued ==
    /\ [](/\ enqueued[1] <= observer[1].inbound
          /\ Len(out_rx[1]) <= enqueued[1]
          /\ fwd_out_item[1] # NoFrame => enqueued[1] < observer[1].inbound)
    /\ [][enqueued'[1] # enqueued[1]
            => \/ fwd_out_item[1] # NoFrame /\ out_rx'[1] = Append(out_rx[1], fwd_out_item[1])
               \/ /\ observer'[1].inbound = observer[1].inbound + 1
                  /\ Len(out_rx'[1]) = Len(out_rx[1]) + 1
                  /\ out_rx'[1][Len(out_rx'[1])].kind \in MessageKinds]_vars

C30_Witness ==
    /\ enqueued[1] = RecvArrive
    /\ observer[1].inbound = RecvArrive
    /\ Len(out_rx[1]) = Capacity
    /\ fwd_out_item[1] = NoFrame
    /\ guard[1]

\* --------------------------------------------------------------------- C31
\* C31: every frame written to the native sink, user frame or heartbeat
\* Ping, was passed to the observer's outbound hook before it was written:
\* the frames transmitted never outnumber the outbound frames observed (both
\* counted up to MaxLog), a frame Forward still holds is observed and not
\* yet transmitted, and a write either sends the buffered frame or observes
\* the frame in the same poll.
C31_ObservedBeforeWritten ==
    /\ [](/\ Min(Len(written[1]) + Len(pinged[1]), MaxLog) <= observer[1].outbound
          /\ (fwd_in_item[1] # NoFrame /\ observer[1].outbound < MaxLog)
                => Len(written[1]) + Len(pinged[1]) < observer[1].outbound)
    /\ [][Len(trans_tx'[1]) > Len(trans_tx[1])
            => \/ fwd_in_item[1] # NoFrame /\ fwd_in_item'[1] = NoFrame
               \/ observer'[1].outbound = Sat(observer[1].outbound)]_vars

C31_Witness ==
    /\ Len(written[1]) >= 1
    /\ Len(pinged[1]) >= 1
    /\ observer[1].outbound = Len(written[1]) + Len(pinged[1])
    /\ fwd_in_item[1] = NoFrame

\* --------------------------------------------------------------------- C34
\* C34: the driver task completes only after both halves have completed,
\* and the completion of one half leaves the other half as it is: a half
\* that is running when the other one ends is still running after that step,
\* with the frame it holds.
C34_JoinWaitsForBoth ==
    /\ [](task[1] = "Done" => fwd_in[1] = "Done" /\ fwd_out[1] = "Done")
    /\ [][(fwd_in[1] = "Running" /\ fwd_in'[1] = "Done")
            => fwd_out'[1] = fwd_out[1] /\ fwd_out_item'[1] = fwd_out_item[1]]_vars
    /\ [][(fwd_out[1] = "Running" /\ fwd_out'[1] = "Done")
            => fwd_in'[1] = fwd_in[1] /\ fwd_in_item'[1] = fwd_in_item[1]]_vars
    /\ [][(task[1] = "Running" /\ task'[1] = "Done")
            => fwd_in[1] = "Done" \/ fwd_out[1] = "Done"]_vars

C34_Witness ==
    /\ task[1] = "Running"
    /\ fwd_out[1] = "Done"
    /\ fwd_in[1] = "Running"
    /\ fwd_in_item[1] # NoFrame
    /\ guard[1]

C39_NoHeartbeatQueued ==
    \A i \in 1..Len(out_rx[1]) : ~IsHeartbeat(out_rx[1][i])

\* C39, amended: the driver puts every frame it decodes, Ping and Pong
\* included, into the channel to Core (or holds it in Forward while the
\* channel is full); a heartbeat frame leaves the channel only in Core's
\* receive poll, which consumes it without yielding it.
C39_HeartbeatQueuedThenDropped ==
    /\ [][(observer'[1].inbound # observer[1].inbound /\ guard[1])
            => \/ /\ Len(out_rx'[1]) = Len(out_rx[1]) + 1
                  /\ out_rx'[1][Len(out_rx'[1])].kind \in MessageKinds
                  /\ observer'[1].pongs # observer[1].pongs
                        => out_rx'[1][Len(out_rx'[1])].kind = "Pong"
               \/ /\ fwd_out_item'[1].kind \in MessageKinds
                  /\ observer'[1].pongs # observer[1].pongs
                        => fwd_out_item'[1].kind = "Pong"]_vars
    /\ [][(guard[1] /\ guard'[1] /\ Len(out_rx'[1]) < Len(out_rx[1]))
            => LET removed == SubSeq(out_rx[1], 1, Len(out_rx[1]) - Len(out_rx'[1]))
                   final == removed[Len(removed)]
               IN /\ \A i \in 1..(Len(removed) - 1) : IsHeartbeat(removed[i])
                  /\ IF IsUser(final)
                     THEN yielded'[1] = Log(yielded[1], final)
                     ELSE yielded'[1] = yielded[1]]_vars

C39_Witness ==
    /\ guard[1]
    /\ out_rx[1] # <<>>
    /\ Head(out_rx[1]).kind = "Pong"
    /\ observer[1].pongs >= 1
    /\ enqueued[1] >= 1

\* --------------------------------------------------------------------- C32
\* The inbound half is suspended: the channel to Core is full and Forward
\* holds the next frame.
Suspended(e) == Len(out_rx[e]) = Capacity /\ fwd_out_item[e] # NoFrame

\* C32: a full channel to Core suspends only the inbound half.  From any
\* state in which the inbound half is suspended the outbound half goes on:
\* every frame accepted by send is written to the native sink, and further
\* heartbeat Pings are generated and written, whether or not the caller
\* ever receives again.
C32_OutboundKeepsGoing ==
    /\ \A n \in 1..MaxSend :
          (Suspended(1) /\ Len(sent[1]) >= n) ~> (Len(written[1]) >= n)
    /\ \A n \in 1..MaxLog :
          (Suspended(1) /\ Len(pinged[1]) < n) ~> (Len(pinged[1]) >= n)

C32_Witness ==
    /\ Suspended(1)
    /\ fwd_out[1] = "Running"
    /\ Len(sent[1]) = MaxSend
    /\ written[1] = sent[1]
    /\ Len(pinged[1]) = MaxLog

C35_KindMismatchFails ==
    call.pc = "unframed"
        => LET msg == call.msg.val
           IN /\ call.out.ok <=> msg.kind = call.codec
              /\ (call.out.ok /\ call.codec = "Binary") => call.out.val = msg.data
              /\ (call.out.ok /\ call.codec = "Text") => FromUtf8(call.out.val) = Ok(msg.data)

C35_Witness ==
    /\ call.pc = "unframed"
    /\ call.codec = "Binary"
    /\ call.msg.val.kind = "Text"
    /\ call.msg.val.data # <<>>
    /\ ~call.out.ok

\* --------------------------------------------------------------------- C37
\* C37: encode_timestamp gives exactly 8 bytes, most significant first, and
\* decode_timestamp gives back the encoded value for every 64-bit unsigned
\* value; on a payload that is not 8 bytes long decode_timestamp gives 0.
C37_TimestampRoundTrip ==
    /\ call.pc \in {"ping", "pong", "decoded_timestamp", "latency"} /\ call.bytes.ok
          => LET t == call.payload.val[1]
                 b == call.bytes.val
             IN /\ Len(b) = 8
                /\ \A i \in 1..8 : b[i] \in 0..(ByteBase - 1)
                /\ t = b[1] * ByteBase ^ 7 + b[2] * ByteBase ^ 6 + b[3] * ByteBase ^ 5
                         + b[4] * ByteBase ^ 4 + b[5] * ByteBase ^ 3 + b[6] * ByteBase ^ 2
                         + b[7] * ByteBase + b[8]
    /\ call.pc = "decoded_timestamp"
          => IF call.bytes.ok
             THEN call.msg.val.data = call.bytes.val /\ call.out = Ok(<<call.payload.val[1]>>)
             ELSE Len(call.msg.val.data) # 8 /\ call.out = Ok(<<0>>)

C37_Witness ==
    /\ call.pc = "decoded_timestamp"
    /\ call.bytes.ok
    /\ call.payload.val[1] = U64 - 1
    /\ call.out = Ok(<<U64 - 1>>)

\* --------------------------------------------------------------------- C38
\* C38: the latency reported for a Pong is the time from the timestamp in
\* its payload to now when the timestamp is not in the future, and 0 when it
\* is; it never exceeds now.  A payload that is not a timestamp counts as
\* timestamp 0.
C38_LatencySaturates ==
    call.pc = "latency"
        => LET now == call.out.val[1]
               latency == call.out.val[2]
               sent_at == IF call.bytes.ok THEN call.payload.val[1] ELSE 0
           IN /\ latency \in 0..now
              /\ now >= sent_at => latency + sent_at = now
              /\ now < sent_at => latency = 0

C38_Witness ==
    /\ call.pc = "latency"
    /\ call.bytes.ok
    /\ call.payload.val[1] = U64 - 1
    /\ call.out.val = <<1, 0>>

====
